---- MODULE Spec2Model ----
(***************************************************************************)
(* Model of the RAG core of weekend-assign (src/rag_utils.py, with the     *)
(* tables of src/models.py and the session factory of src/database.py).    *)
(*                                                                         *)
(* The specifications of this module:                                      *)
(*   SpecChunk    chunk_text, one action per iteration of its while loop   *)
(*   Spec         ensure_paper_processed / process_paper_for_rag run by    *)
(*                concurrent requests against the document_chunks table    *)
(*   SpecSession  create_or_get_chat_session and session deactivation run  *)
(*                by concurrent requests against the chat_sessions table   *)
(*   SpecRetire   the same operations on the sessions of one pair          *)
(*   SpecSearch   search_relevant_chunks, create_rag_context and           *)
(*                generate_rag_response over the stores processing leaves  *)
(*   SpecPipeline processing and search_relevant_chunks together           *)
(*   SpecDownload download_paper (src/main.py) run by concurrent requests  *)
(*                against the users table                                  *)
(*   SpecAsk      the chat orchestrator ask, run by concurrent requests    *)
(*   SpecClean    clean_text applied to a bounded raw text                 *)
(*   SpecCosine   cosine_similarity applied to two bounded vectors         *)
(* Text is a sequence of one-character strings; offsets are 0-based as in  *)
(* Python, so offset p is element p + 1 of the sequence.                   *)
(***************************************************************************)
EXTENDS Integers, Sequences, FiniteSets, TLC

VARIABLES
    \* ---- chunk_text (SpecChunk): arguments and locals of the function
    text, chunk_size, overlap, start, chunks, chunk_index, cpc,
    \* ---- processing (Spec): the document_chunks table and the requests
    document_chunks, next_chunk_id, embedding_available,
    ppc, ppaper, pchunks, pidx, pending, presult, pprior, outcome, pcalls,
    \* ---- sessions (SpecSession): the chat_sessions table and the requests
    chat_sessions, next_session_pk, clock,
    spc, sop, suser, spaper, sfound, starget, sresult, sprior, squiet,
    last_returned, scalls,
    \* ---- retrieval (SpecSearch): the last call, what it got and returned
    sq, retrieved, answer,
    \* ---- points (SpecDownload, SpecAsk): the balances and their ledger
    hasher_points, initial_points, point_transactions, download_count,
    \* ---- download_paper (SpecDownload): the requests
    dpc, dreq, dloaded, dresult, charged, dcalls,
    \* ---- ask (SpecAsk): the chat_messages table and the requests
    chat_messages, apc, areq, asession, aresult, adebited, acalls,
    \* ---- clean_text (SpecClean): the argument and the returned text
    clean_in, clean_out, clean_pc,
    \* ---- cosine_similarity (SpecCosine): the arguments and the result
    cos_a, cos_b, cos_out, cos_pc

chunkVars == <<text, chunk_size, overlap, start, chunks, chunk_index, cpc>>
procVars == <<document_chunks, next_chunk_id, embedding_available,
              ppc, ppaper, pchunks, pidx, pending, presult, pprior, outcome, pcalls>>
sessVars == <<chat_sessions, next_session_pk, clock,
              spc, sop, suser, spaper, sfound, starget, sresult, sprior, squiet,
              last_returned, scalls>>
searchVars == <<sq, retrieved, answer>>
pointVars == <<hasher_points, initial_points, point_transactions, download_count>>
dlVars == <<dpc, dreq, dloaded, dresult, charged, dcalls>>
askVars == <<chat_messages, apc, areq, asession, aresult, adebited, acalls>>
moneyVars == <<pointVars, dlVars, askVars>>
cleanVars == <<clean_in, clean_out, clean_pc>>
cosVars == <<cos_a, cos_b, cos_out, cos_pc>>
fnVars == <<cleanVars, cosVars>>
chatVars == <<searchVars, moneyVars, fnVars>>
vars == <<chunkVars, procVars, sessVars, chatVars>>

----------------------------------------------------------------------------
(* Bounds of the model *)

\* longest text given to chunk_text in SpecChunk
MaxLen == 6
\* largest chunk_size given to chunk_text in SpecChunk
MaxChunk == 5
\* chunk_text is stopped after this many emitted chunks (a run that loops
\* for ever emits without end)
MaxEmit == 8

(* Program constants *)
CHUNK_SIZE == 1000
CHUNK_OVERLAP == 200
MAX_CHUNKS_FOR_CONTEXT == 5

----------------------------------------------------------------------------
(* Characters and Python's string primitives *)

\* the characters of the model: a letter, the sentence terminator, a blank,
\* a newline, a digit and a non-printable control character
Letter == "a"
Dot == "."
Blank == " "
Newline == "NL"
Digit == "1"
Control == "NUL"

\* str.isspace() of one character
IsSpace(c) == c \in {Blank, Newline}

\* str.isprintable() of one character (a newline is not printable)
IsPrintable(c) == c \in {Letter, Dot, Blank, Digit}

SetMax(S) == CHOOSE x \in S : \A y \in S : y <= x

\* a slice bound as Python normalises it: negative counts from the end,
\* and the result is clipped to 0 .. len
SliceIndex(i, n) ==
    IF i < 0 THEN (IF n + i < 0 THEN 0 ELSE n + i)
    ELSE (IF i > n THEN n ELSE i)

\* t[s:e]
PySlice(t, s, e) ==
    LET lo == SliceIndex(s, Len(t))
        hi == SliceIndex(e, Len(t))
    IN  IF lo >= hi THEN <<>> ELSE SubSeq(t, lo + 1, hi)

\* t.rfind(ch, s, e): the highest offset in t[s:e] holding ch, or -1
RFind(t, ch, s, e) ==
    LET lo == SliceIndex(s, Len(t))
        hi == SliceIndex(e, Len(t))
        hits == {i \in lo..(hi - 1) : t[i + 1] = ch}
    IN  IF hits = {} THEN -1 ELSE SetMax(hits)

RECURSIVE FirstNonSpace(_, _)
FirstNonSpace(t, i) ==
    IF i > Len(t) THEN i
    ELSE IF IsSpace(t[i]) THEN FirstNonSpace(t, i + 1) ELSE i

RECURSIVE LastNonSpace(_, _)
LastNonSpace(t, i) ==
    IF i < 1 THEN i
    ELSE IF IsSpace(t[i]) THEN LastNonSpace(t, i - 1) ELSE i

\* t.strip()
Strip(t) ==
    LET lo == FirstNonSpace(t, 1)
        hi == LastNonSpace(t, Len(t))
    IN  IF lo > hi THEN <<>> ELSE SubSeq(t, lo, hi)

----------------------------------------------------------------------------
(* chunk_text *)

\* the cut of the window starting at s: the naive end s + size, snapped
\* back to a sentence or word boundary in the back half of the window when
\* the window is not the last one
CutEnd(t, s, size) ==
    LET end == s + size
        sentence_end == RFind(t, Dot, s, end)
        word_end == RFind(t, Blank, s, end)
    IN  IF end < Len(t)
        THEN IF sentence_end > s + (size \div 2) THEN sentence_end + 1
             ELSE IF word_end > s + (size \div 2) THEN word_end
             ELSE end
        ELSE end

\* the record appended for a window with non-empty trimmed content
ChunkRecord(content, idx, ov, s, end) ==
    [content |-> content,
     chunk_index |-> idx,
     chunk_size |-> Len(content),
     overlap_size |-> IF idx > 0 THEN ov ELSE 0,
     start_pos |-> s,
     end_pos |-> end]

AdvanceIndexAlways(idx, content) == idx + 1

\* chunk_index after a window: incremented only when a chunk was appended
AdvanceIndex(idx, content) == IF content # <<>> THEN idx + 1 ELSE idx

NextStartForward(t, end, ov) == IF end < Len(t) THEN end + ov + 1 ELSE end

\* the start of the next window
NextStart(t, end, ov) == IF end < Len(t) THEN end - ov ELSE end

\* one iteration of the while loop, as a function of the loop's locals
ChunkIter(t, size, ov, s, idx, acc) ==
    LET end == CutEnd(t, s, size)
        content == Strip(PySlice(t, s, end))
    IN  [chunks |-> IF content # <<>>
                    THEN Append(acc, ChunkRecord(content, idx, ov, s, end))
                    ELSE acc,
         chunk_index |-> AdvanceIndex(idx, content),
         start |-> NextStart(t, end, ov)]

\* chunk_text(t, size, ov) for the inputs on which its loop ends
RECURSIVE ChunkLoop(_, _, _, _, _, _)
ChunkLoop(t, size, ov, s, idx, acc) ==
    IF s >= Len(t) THEN acc
    ELSE LET r == ChunkIter(t, size, ov, s, idx, acc)
         IN  ChunkLoop(t, size, ov, r.start, r.chunk_index, r.chunks)

ChunkText(t, size, ov) == IF t = <<>> THEN <<>> ELSE ChunkLoop(t, size, ov, 0, 0, <<>>)

\* the characters chunk_text tells apart
ChunkAlphabet == {Letter, Dot, Blank}

TextsUpTo(n) == UNION {[1..k -> ChunkAlphabet] : k \in 0..n}

\* the text of the specification's end-to-end example: 2,400 characters
\* with no sentence or word boundary
ExampleText == [i \in 1..2400 |-> Letter]

\* chunk_text called on a bounded text with valid arguments
InitChunkArgs ==
    /\ text \in TextsUpTo(MaxLen)
    /\ chunk_size \in 1..MaxChunk
    /\ overlap \in 0..(chunk_size - 1)

\* chunk_text called as process_paper_for_rag calls it, on the example text
InitChunkExample ==
    /\ text = ExampleText
    /\ chunk_size = CHUNK_SIZE
    /\ overlap = CHUNK_OVERLAP

InitChunkLocals ==
    /\ start = 0
    /\ chunks = <<>>
    /\ chunk_index = 0
    /\ cpc = IF text = <<>> THEN "done" ELSE "loop"

\* one iteration of the while loop
ChunkStep ==
    /\ cpc = "loop"
    /\ Len(chunks) < MaxEmit
    /\ LET r == ChunkIter(text, chunk_size, overlap, start, chunk_index, chunks)
       IN  /\ chunks' = r.chunks
           /\ chunk_index' = r.chunk_index
           /\ start' = r.start
           /\ cpc' = IF r.start >= Len(text) THEN "done" ELSE "loop"
    /\ UNCHANGED <<text, chunk_size, overlap>>


NextChunk == ChunkStep /\ UNCHANGED <<procVars, sessVars, chatVars>>

----------------------------------------------------------------------------
(* clean_text and extract_text_from_pdf *)

\* re.sub(r'\s+', ' ', t): every maximal run of whitespace becomes one blank
CollapseWhitespace(t) ==
    LET marked == [i \in 1..Len(t) |->
                     [ch |-> IF IsSpace(t[i]) THEN Blank ELSE t[i],
                      drop |-> IsSpace(t[i]) /\ i > 1 /\ IsSpace(t[i - 1])]]
        kept == SelectSeq(marked, LAMBDA m : ~m.drop)
    IN  [i \in 1..Len(kept) |-> kept[i].ch]

\* the offset just after the digits that start at offset i (1-based index)
RECURSIVE DigitsEnd(_, _)
DigitsEnd(t, i) ==
    IF i <= Len(t) /\ t[i] = Digit THEN DigitsEnd(t, i + 1) ELSE i

\* re.sub(r'\n\d+\n', '\n', t), scanning from index i: leftmost matches,
\* not overlapping, each replaced by one newline
RECURSIVE SubPageNumbers(_, _)
SubPageNumbers(t, i) ==
    IF i > Len(t) THEN <<>>
    ELSE LET j == DigitsEnd(t, i + 1)
         IN  IF t[i] = Newline /\ j > i + 1 /\ j <= Len(t) /\ t[j] = Newline
             THEN <<Newline>> \o SubPageNumbers(t, j + 1)
             ELSE <<t[i]>> \o SubPageNumbers(t, i + 1)

\* the pattern needs a newline: a text without one is returned as it is
StripPageNumbers(t) ==
    IF \A i \in 1..Len(t) : t[i] # Newline THEN t ELSE SubPageNumbers(t, 1)

\* ''.join(c for c in t if c.isprintable() or c.isspace())
RemoveNonPrintable(t) == SelectSeq(t, LAMBDA c : IsPrintable(c) \/ IsSpace(c))

\* clean_text
CleanText(t) == Strip(RemoveNonPrintable(StripPageNumbers(CollapseWhitespace(t))))

\* longest raw text given to clean_text in SpecClean
MaxRaw == 5

\* the characters clean_text tells apart
CleanAlphabet == {Letter, Dot, Blank, Newline, Digit, Control}

RawTexts == UNION {[1..k -> CleanAlphabet] : k \in 0..MaxRaw}

\* clean_text is not running
CleanIdle == clean_in = <<>> /\ clean_out = <<>> /\ clean_pc = "idle"

\* clean_text called on a bounded raw text
InitCleanArgs == clean_in \in RawTexts /\ clean_out = <<>> /\ clean_pc = "call"

\* the call of clean_text, from its entry to its return
Clean ==
    /\ clean_pc = "call"
    /\ clean_out' = CleanText(clean_in)
    /\ clean_pc' = "done"
    /\ UNCHANGED clean_in

NextClean ==
    Clean /\ UNCHANGED <<chunkVars, procVars, sessVars, searchVars, moneyVars, cosVars>>

\* the papers requests ask for, and those with a row and a file in
\* research_papers
RequestedPapers == {1, 2, 3}
Papers == {1, 2}

\* what PyPDF2 reads from the pages of a paper's file, each page followed by
\* a newline: paper 1 is ordinary prose (words, sentences, line breaks and
\* a stray control character), paper 2 holds control characters only
PageText(p) ==
    IF p = 1
    THEN [i \in 1..1031 |->
            IF i % 103 = 0 THEN Control
            ELSE IF i % 97 = 0 THEN Newline
            ELSE IF i % 41 = 0 THEN Dot
            ELSE IF i % 8 = 0 THEN Blank
            ELSE Letter]
    ELSE <<Control, Control, Newline>>

\* extract_text_from_pdf when the file is read without an exception
ExtractedText == [p \in Papers |-> Strip(PageText(p))]

\* the chunk list process_paper_for_rag builds from an extracted text
ChunksOfRaw(raw) == ChunkText(CleanText(raw), CHUNK_SIZE, CHUNK_OVERLAP)

\* chunk_text(clean_text(raw_text)) for the text extracted from each paper's
\* file, tabulated (the pipeline is a function of the file)
BatchOf == [p \in Papers |-> ChunksOfRaw(ExtractedText[p])]


----------------------------------------------------------------------------
(* generate_embedding and the document_chunks table *)

\* a call budget: requests started in one run of a specification
MaxCalls == 2
\* concurrent requests (each has its own database session)
NumRequests == 2
Requests == 1..NumRequests

\* generate_embedding returns None when no vector can be had; the embedding
\* column then stays NULL
NoVector == <<>>

\* the vector the sentence-transformers model gives a text: a fixed
\* function of the text into vectors of a fixed dimension
EmbedVector(content) ==
    <<Cardinality({i \in 1..Len(content) : content[i] = Dot}) % 3,
      (Len(content) % 2) + 1>>

\* the vector of each chunk of each paper's batch
BatchVectors ==
    [p \in Papers |-> [k \in 1..Len(BatchOf[p]) |-> EmbedVector(BatchOf[p][k].content)]]

EmbeddingOutcomesUnguarded(content) == {EmbedVector(content), NoVector}

\* what generate_embedding can return for a text: None when the model was
\* not imported, the vector or None (encode raised) otherwise
EmbeddingOutcomes(content) ==
    IF embedding_available THEN {EmbedVector(content), NoVector} ELSE {NoVector}

\* the DocumentChunk built from one entry of the chunk list (its id is
\* assigned when it is flushed)
ChunkRow(p, c, embedding) ==
    [paper_id |-> p,
     chunk_index |-> c.chunk_index,
     content |-> c.content,
     embedding |-> embedding,
     chunk_size |-> c.chunk_size,
     overlap_size |-> c.overlap_size,
     start_pos |-> c.start_pos,
     end_pos |-> c.end_pos]

\* the rows of a session's pending list with the ids the flush gives them
Flushed(rows, first_id) ==
    {[id |-> first_id + k - 1] @@ rows[k] : k \in 1..Len(rows)}

\* the rows in request r's session that are added and not yet committed:
\* one per chunk the loop has passed, each with the embedding it was given
\* (pending[r] keeps the embeddings, the chunk list the rest)
PendingRows(r) ==
    [k \in 1..Len(pending[r]) |-> ChunkRow(ppaper[r], pchunks[r][k], pending[r][k])]

\* db.query(DocumentChunk).filter(DocumentChunk.paper_id == p)
ChunksOfPaper(p) == {row \in document_chunks : row.paper_id = p}

InitProc ==
    /\ document_chunks = {}
    /\ next_chunk_id = 1
    /\ embedding_available \in BOOLEAN
    /\ ppc = [r \in Requests |-> "idle"]
    /\ ppaper = [r \in Requests |-> 0]
    /\ pchunks = [r \in Requests |-> <<>>]
    /\ pidx = [r \in Requests |-> 0]
    /\ pending = [r \in Requests |-> <<>>]
    /\ presult = [r \in Requests |-> FALSE]
    /\ pprior = [r \in Requests |-> "none"]
    /\ outcome = [p \in RequestedPapers |-> "none"]
    /\ pcalls = 0

\* a request returns from ensure_paper_processed with result ok; its
\* database session is closed (get_db), which discards what is pending
Return(r, ok) ==
    /\ ppc' = [ppc EXCEPT ![r] = "done"]
    /\ presult' = [presult EXCEPT ![r] = ok]
    /\ outcome' = [outcome EXCEPT ![ppaper[r]] = IF ok THEN "ok" ELSE "failed"]
    /\ pchunks' = [pchunks EXCEPT ![r] = <<>>]
    /\ pidx' = [pidx EXCEPT ![r] = 0]
    /\ pending' = [pending EXCEPT ![r] = <<>>]

\* a request calls ensure_paper_processed(p, db)
StartEnsure(r, p) ==
    /\ UNCHANGED <<chunkVars, sessVars, chatVars>>
    /\ ppc[r] \in {"idle", "done"}
    /\ pcalls < MaxCalls
    /\ pcalls' = pcalls + 1
    /\ ppc' = [ppc EXCEPT ![r] = "ensure"]
    /\ ppaper' = [ppaper EXCEPT ![r] = p]
    /\ pprior' = [pprior EXCEPT ![r] = outcome[p]]
    /\ UNCHANGED <<document_chunks, next_chunk_id, embedding_available,
                   pchunks, pidx, pending, presult, outcome>>

\* ensure_paper_processed: the presence check, then process_paper_for_rag
EnsureCheck(r) ==
    /\ UNCHANGED <<chunkVars, sessVars, chatVars>>
    /\ ppc[r] = "ensure"
    /\ IF ChunksOfPaper(ppaper[r]) # {}
       THEN Return(r, TRUE)
       ELSE /\ ppc' = [ppc EXCEPT ![r] = "process"]
            /\ UNCHANGED <<pchunks, pidx, pending, presult, outcome>>
    /\ UNCHANGED <<document_chunks, next_chunk_id, embedding_available,
                   ppaper, pprior, pcalls>>

\* process_paper_for_rag: the paper lookup and the already-processed check
ProcessCheck(r) ==
    /\ UNCHANGED <<chunkVars, sessVars, chatVars>>
    /\ ppc[r] = "process"
    /\ IF ppaper[r] \notin Papers
       THEN Return(r, FALSE)
       ELSE IF ChunksOfPaper(ppaper[r]) # {}
       THEN Return(r, TRUE)
       ELSE /\ ppc' = [ppc EXCEPT ![r] = "extract"]
            /\ UNCHANGED <<pchunks, pidx, pending, presult, outcome>>
    /\ UNCHANGED <<document_chunks, next_chunk_id, embedding_available,
                   ppaper, pprior, pcalls>>

\* extraction, cleaning and chunking of a text that was read: the chunk
\* list is chunk_text(clean_text(raw_text))
ExtractAndChunk(r) ==
    /\ UNCHANGED <<chunkVars, sessVars, chatVars>>
    /\ ppc[r] = "extract"
    /\ LET raw_text == ExtractedText[ppaper[r]]
       IN  IF raw_text = <<>>
           THEN Return(r, FALSE)
           ELSE /\ pchunks' = [pchunks EXCEPT ![r] = BatchOf[ppaper[r]]]
                /\ pidx' = [pidx EXCEPT ![r] = 1]
                /\ ppc' = [ppc EXCEPT ![r] = "embed"]
                /\ UNCHANGED <<pending, presult, outcome>>
    /\ UNCHANGED <<document_chunks, next_chunk_id, embedding_available,
                   ppaper, pprior, pcalls>>

\* extract_text_from_pdf caught an exception and returned "": the request
\* returns False
ExtractFails(r) ==
    /\ UNCHANGED <<chunkVars, sessVars, chatVars>>
    /\ ppc[r] = "extract"
    /\ Return(r, FALSE)
    /\ UNCHANGED <<document_chunks, next_chunk_id, embedding_available,
                   ppaper, pprior, pcalls>>

\* where db.add puts a row: in the session's pending list, which no other
\* request sees before the commit
AddedEager(table, pend, row) ==
    [table |-> table \cup Flushed(<<row>>, next_chunk_id), pending |-> pend,
     next_id |-> next_chunk_id + 1]

Added(table, pend, row) ==
    [table |-> table, pending |-> Append(pend, row.embedding),
     next_id |-> next_chunk_id]

\* one iteration of the loop over the chunk list: embed, build the row, add
EmbedAndAdd(r) ==
    /\ UNCHANGED <<chunkVars, sessVars, chatVars>>
    /\ ppc[r] = "embed"
    /\ pidx[r] <= Len(pchunks[r])
    /\ \E embedding \in EmbeddingOutcomes(pchunks[r][pidx[r]].content) :
         LET a == Added(document_chunks, pending[r],
                        ChunkRow(ppaper[r], pchunks[r][pidx[r]], embedding))
         IN  /\ document_chunks' = a.table
             /\ pending' = [pending EXCEPT ![r] = a.pending]
             /\ next_chunk_id' = a.next_id
    /\ pidx' = [pidx EXCEPT ![r] = pidx[r] + 1]
    /\ UNCHANGED <<embedding_available, ppc, ppaper, pchunks, presult,
                   pprior, outcome, pcalls>>

\* db.commit() after the loop: every pending row becomes visible at once
Commit(r) ==
    /\ UNCHANGED <<chunkVars, sessVars, chatVars>>
    /\ ppc[r] = "embed"
    /\ pidx[r] > Len(pchunks[r])
    /\ document_chunks' = document_chunks \cup Flushed(PendingRows(r), next_chunk_id)
    /\ next_chunk_id' = next_chunk_id + Len(pending[r])
    /\ Return(r, TRUE)
    /\ UNCHANGED <<embedding_available, ppaper, pprior, pcalls>>

RolledBackKeeping(table, pend) == table \cup Flushed(pend, next_chunk_id)

\* the table after db.rollback(): what was pending is dropped
RolledBack(table, pend) == table

\* a step inside the try block raised (building or adding a row, or the
\* commit): the handler rolls back and the request returns False
ProcessRaises(r) ==
    /\ UNCHANGED <<chunkVars, sessVars, chatVars>>
    /\ ppc[r] = "embed"
    /\ document_chunks' = RolledBack(document_chunks, PendingRows(r))
    /\ Return(r, FALSE)
    /\ UNCHANGED <<next_chunk_id, embedding_available, ppaper, pprior, pcalls>>

NextProc ==
    \E r \in Requests :
        \/ \E p \in RequestedPapers : StartEnsure(r, p)
        \/ EnsureCheck(r)
        \/ ProcessCheck(r)
        \/ ExtractAndChunk(r)
        \/ ExtractFails(r)
        \/ EmbedAndAdd(r)
        \/ Commit(r)
        \/ ProcessRaises(r)


----------------------------------------------------------------------------
(* chat sessions *)

\* a call budget for SpecSession
MaxSessionCalls == 4

Users == {1, 2}
Pairs == Users \X Papers

\* str(uuid.uuid4()): a token no row holds yet (tokens are only compared
\* for equality, so one fresh token stands for any)
FreshUuid == 1000 + next_session_pk

\* the rows the query of create_or_get_chat_session matches
ActiveSessions(u, p) ==
    {row \in chat_sessions :
        row.user_id = u /\ row.paper_id = p /\ row.is_active}

InFlight(r) == spc[r] \in {"query", "touch", "create"}

InitSess ==
    /\ chat_sessions = {}
    /\ next_session_pk = 1
    /\ clock = 0
    /\ spc = [r \in Requests |-> "idle"]
    /\ sop = [r \in Requests |-> "none"]
    /\ suser = [r \in Requests |-> 0]
    /\ spaper = [r \in Requests |-> 0]
    /\ sfound = [r \in Requests |-> 0]
    /\ starget = [r \in Requests |-> 0]
    /\ sresult = [r \in Requests |-> [status |-> "none", session_id |-> 0,
                                       created |-> FALSE, last_interaction |-> 0]]
    /\ sprior = [r \in Requests |-> <<>>]
    /\ squiet = [r \in Requests |-> FALSE]
    /\ last_returned = [pr \in Pairs |-> <<>>]
    /\ scalls = 0

\* a request calls create_or_get_chat_session(u, p, db); the request
\* remembers what the last undisturbed call on the pair returned, and
\* whether any other request is running
StartGet(r, u, p) ==
    /\ UNCHANGED <<chunkVars, procVars, chatVars>>
    /\ spc[r] \in {"idle", "done"}
    /\ scalls < MaxSessionCalls
    /\ scalls' = scalls + 1
    /\ clock' = clock + 1
    /\ spc' = [spc EXCEPT ![r] = "query"]
    /\ sop' = [sop EXCEPT ![r] = "get"]
    /\ suser' = [suser EXCEPT ![r] = u]
    /\ spaper' = [spaper EXCEPT ![r] = p]
    /\ sfound' = [sfound EXCEPT ![r] = 0]
    /\ sprior' = [sprior EXCEPT ![r] = last_returned[<<u, p>>]]
    /\ squiet' = [x \in Requests |->
                    IF x = r THEN \A y \in Requests \ {r} : ~InFlight(y) ELSE FALSE]
    /\ UNCHANGED <<chat_sessions, next_session_pk, starget, sresult, last_returned>>

\* .first() of a query without ORDER BY: any one of the matching rows
First(matching) == matching

\* the query for an existing active session of the pair
SessionQuery(r) ==
    /\ UNCHANGED <<chunkVars, procVars, chatVars>>
    /\ spc[r] = "query"
    /\ LET matching == ActiveSessions(suser[r], spaper[r])
       IN  IF matching # {}
           THEN /\ \E row \in First(matching) : sfound' = [sfound EXCEPT ![r] = row.id]
                /\ spc' = [spc EXCEPT ![r] = "touch"]
           ELSE /\ sfound' = [sfound EXCEPT ![r] = 0]
                /\ spc' = [spc EXCEPT ![r] = "create"]
    /\ UNCHANGED <<chat_sessions, next_session_pk, clock, sop, suser, spaper,
                   starget, sresult, sprior, squiet, last_returned, scalls>>

\* the request returns the session row s
ReturnSession(r, s, was_created) ==
    /\ spc' = [spc EXCEPT ![r] = "done"]
    /\ sresult' = [sresult EXCEPT ![r] =
                     [status |-> "ok", session_id |-> s.session_id,
                      created |-> was_created,
                      last_interaction |-> s.last_interaction]]
    /\ last_returned' = [last_returned EXCEPT ![<<suser[r], spaper[r]>>] =
                           IF squiet[r]
                           THEN <<[session_id |-> s.session_id,
                                   last_interaction |-> s.last_interaction]>>
                           ELSE <<>>]

\* an existing session was found: last_interaction = utcnow(), commit
SessionTouch(r) ==
    /\ UNCHANGED <<chunkVars, procVars, chatVars>>
    /\ spc[r] = "touch"
    /\ LET old == CHOOSE row \in chat_sessions : row.id = sfound[r]
           new == [old EXCEPT !.last_interaction = clock]
       IN  /\ chat_sessions' = (chat_sessions \ {old}) \cup {new}
           /\ ReturnSession(r, new, FALSE)
    /\ UNCHANGED <<next_session_pk, clock, sop, suser, spaper, sfound, starget,
                   sprior, squiet, scalls>>

\* no active session was found: a new row is added and committed
SessionCreate(r) ==
    /\ UNCHANGED <<chunkVars, procVars, chatVars>>
    /\ spc[r] = "create"
    /\ LET new == [id |-> next_session_pk,
                   user_id |-> suser[r],
                   paper_id |-> spaper[r],
                   session_id |-> FreshUuid,
                   is_active |-> TRUE,
                   chunks_processed |-> FALSE,
                   created_at |-> clock,
                   last_interaction |-> clock]
       IN  /\ chat_sessions' = chat_sessions \cup {new}
           /\ ReturnSession(r, new, TRUE)
    /\ next_session_pk' = next_session_pk + 1
    /\ UNCHANGED <<clock, sop, suser, spaper, sfound, starget, sprior, squiet, scalls>>

\* the session ids a caller may name: those handed out, and one never issued
KnownSessionIds == {row.session_id : row \in chat_sessions} \cup {999}

\* a session row whose is_active is flipped instead of cleared
RetiredToggled(row) == [row EXCEPT !.is_active = ~row.is_active]

\* the session row after deactivation: is_active = false, nothing else
Retired(row) == [row EXCEPT !.is_active = FALSE]

\* deactivate_session(sid, u): NotFound for an unknown id, Forbidden for
\* another user's session, otherwise is_active = false (already false or
\* not) and success; a request it overlaps with no longer runs alone
Deactivate(r, sid, u) ==
    /\ UNCHANGED <<chunkVars, procVars, chatVars>>
    /\ spc[r] \in {"idle", "done"}
    /\ scalls < MaxSessionCalls
    /\ scalls' = scalls + 1
    /\ clock' = clock + 1
    /\ spc' = [spc EXCEPT ![r] = "done"]
    /\ sop' = [sop EXCEPT ![r] = "deactivate"]
    /\ suser' = [suser EXCEPT ![r] = u]
    /\ starget' = [starget EXCEPT ![r] = sid]
    /\ LET found == {row \in chat_sessions : row.session_id = sid}
       IN  IF found = {}
           THEN /\ sresult' = [sresult EXCEPT ![r] =
                      [status |-> "NotFound", session_id |-> sid,
                       created |-> FALSE, last_interaction |-> 0]]
                /\ UNCHANGED <<chat_sessions, last_returned, sprior>>
           ELSE LET old == CHOOSE row \in found : TRUE
                IN  IF old.user_id # u
                    THEN /\ sresult' = [sresult EXCEPT ![r] =
                               [status |-> "Forbidden", session_id |-> sid,
                                created |-> FALSE, last_interaction |-> 0]]
                         /\ UNCHANGED <<chat_sessions, last_returned, sprior>>
                    ELSE /\ chat_sessions' = (chat_sessions \ {old})
                                \cup {Retired(old)}
                         /\ sresult' = [sresult EXCEPT ![r] =
                               [status |-> "ok", session_id |-> sid,
                                created |-> FALSE,
                                last_interaction |-> old.last_interaction]]
                         /\ last_returned' = [last_returned EXCEPT
                               ![<<old.user_id, old.paper_id>>] = <<>>]
                         /\ sprior' = [x \in Requests |->
                               IF suser[x] = old.user_id /\ spaper[x] = old.paper_id
                               THEN <<>> ELSE sprior[x]]
    /\ squiet' = [x \in Requests |-> squiet[x] /\ (x = r \/ ~InFlight(x))]
    /\ UNCHANGED <<next_session_pk, spaper, sfound>>

NextSess ==
    \E r \in Requests :
        \/ \E u \in Users, p \in Papers : StartGet(r, u, p)
        \/ SessionQuery(r)
        \/ SessionTouch(r)
        \/ SessionCreate(r)
        \/ \E sid \in KnownSessionIds, u \in Users : Deactivate(r, sid, u)

\* the pair whose sessions SpecRetire follows
RetirePair == <<1, 1>>

\* get_or_create on one pair and deactivation of any session by any user
NextRetire ==
    \E r \in Requests :
        \/ StartGet(r, RetirePair[1], RetirePair[2])
        \/ SessionQuery(r)
        \/ SessionTouch(r)
        \/ SessionCreate(r)
        \/ \E sid \in KnownSessionIds, u \in Users : Deactivate(r, sid, u)

----------------------------------------------------------------------------
(* Retrieval: cosine_similarity, search_relevant_chunks, create_rag_context *)
(* and generate_rag_response                                                *)

\* most passages in a store SpecSearch starts from
MaxRows == 2

\* the integer part of a square root
ISqrt(n) == CHOOSE k \in 0..1000 : k * k <= n /\ n < (k + 1) * (k + 1)

RECURSIVE DotProduct(_, _)
DotProduct(a, b) ==
    IF a = <<>> THEN 0 ELSE a[1] * b[1] + DotProduct(Tail(a), Tail(b))

\* cosine_similarity without the test of the norms: numpy divides 0.0 by
\* 0.0 and gives nan, written here as 1001, a value no similarity takes
CosineSimilarityNoNormCheck(vec1, vec2) ==
    IF vec1 = <<>> \/ vec2 = <<>> THEN 0
    ELSE IF Len(vec1) # Len(vec2) THEN 0
    ELSE LET dot_product == DotProduct(vec1, vec2)
             sq_a == DotProduct(vec1, vec1)
             sq_b == DotProduct(vec2, vec2)
         IN  IF sq_a = 0 \/ sq_b = 0 THEN 1001
             ELSE LET m == ISqrt((1000000 * dot_product * dot_product)
                                    \div (sq_a * sq_b))
                  IN  IF dot_product < 0 THEN 0 - m ELSE m

\* cosine_similarity: dot / (norm_a * norm_b), kept to three decimals (in
\* thousandths, cut toward zero); 0.0 for an empty argument, for a zero
\* norm and when numpy raises on vectors of different lengths
CosineSimilarity(vec1, vec2) ==
    IF vec1 = <<>> \/ vec2 = <<>> THEN 0
    ELSE IF Len(vec1) # Len(vec2) THEN 0
    ELSE LET dot_product == DotProduct(vec1, vec2)
             sq_a == DotProduct(vec1, vec1)
             sq_b == DotProduct(vec2, vec2)
         IN  IF sq_a = 0 \/ sq_b = 0 THEN 0
             ELSE LET m == ISqrt((1000000 * dot_product * dot_product)
                                    \div (sq_a * sq_b))
                  IN  IF dot_product < 0 THEN 0 - m ELSE m

\* the vectors EmbedVector gives, and cosine_similarity tabulated over them
Vectors == {<<a, b>> : a \in 0..2, b \in 1..2}
SimilarityTable == [a \in Vectors, b \in Vectors |-> CosineSimilarity(a, b)]

Similarity(a, b) ==
    IF a \in Vectors /\ b \in Vectors THEN SimilarityTable[a, b]
    ELSE CosineSimilarity(a, b)

\* most components of a vector given to cosine_similarity in SpecCosine
MaxDim == 2

\* the vectors cosine_similarity is called with: the empty list, the zero
\* vectors and vectors with positive and negative components
CosineInputs == UNION {[1..k -> -1..2] : k \in 0..MaxDim}

\* cosine_similarity is not running
CosineIdle == cos_a = <<>> /\ cos_b = <<>> /\ cos_out = 0 /\ cos_pc = "idle"

\* cosine_similarity called on two bounded vectors
InitCosineArgs ==
    /\ cos_a \in CosineInputs /\ cos_b \in CosineInputs
    /\ cos_out = 0 /\ cos_pc = "call"

\* the call of cosine_similarity, from its entry to its return
Cosine ==
    /\ cos_pc = "call"
    /\ cos_out' = CosineSimilarity(cos_a, cos_b)
    /\ cos_pc' = "done"
    /\ UNCHANGED <<cos_a, cos_b>>

NextCosine ==
    Cosine /\ UNCHANGED <<chunkVars, procVars, sessVars, searchVars, moneyVars, cleanVars>>

\* the questions asked: a word, two full stops, and a long question
LongQuery == [i \in 1..8000 |-> Letter]
Queries == <<(<<Letter>>), (<<Dot, Dot>>), LongQuery>>
QueryVector == [q \in DOMAIN Queries |-> EmbedVector(Queries[q])]

\* generate_embedding(query)
QueryEmbeddings(q) ==
    IF embedding_available THEN {QueryVector[q], NoVector} ELSE {NoVector}

\* the values of top_k search is called with
TopKs == {0, 1, 2, MAX_CHUNKS_FOR_CONTEXT}

\* db.query(DocumentChunk).filter(paper_id == p).all(): the rows, in an
\* order the database chooses (the query has no ORDER BY)
AllOrders(rows) ==
    LET n == Cardinality(rows)
    IN  {o \in [1..n -> rows] : \A i, j \in 1..n : i # j => o[i] # o[j]}

HasEmbeddingAlways(chunk) == TRUE

\* "if chunk.embedding": the column is not NULL
HasEmbedding(chunk) == chunk.embedding # NoVector

\* the dictionary appended to similarities for a chunk
SimilarityEntry(chunk, query_embedding) ==
    [chunk_id |-> chunk.id,
     content |-> chunk.content,
     similarity |-> Similarity(query_embedding, chunk.embedding),
     chunk_index |-> chunk.chunk_index,
     metadata |-> [start_pos |-> chunk.start_pos, end_pos |-> chunk.end_pos]]

\* the loop over the chunks: one entry per chunk that has an embedding, in
\* the order of the chunks
Similarities(stored, query_embedding) ==
    LET vectorized == SelectSeq(stored, HasEmbedding)
    IN  [i \in 1..Len(vectorized) |->
            SimilarityEntry(vectorized[i], query_embedding)]

\* where a stable descending sort puts e in a sorted list: after every
\* entry whose similarity is greater or equal
RECURSIVE InsertDesc(_, _)
InsertDesc(sorted, e) ==
    IF sorted = <<>> THEN <<e>>
    ELSE IF Head(sorted).similarity >= e.similarity
    THEN <<Head(sorted)>> \o InsertDesc(Tail(sorted), e)
    ELSE <<e>> \o sorted

SortUnsorted(entries) == entries

\* similarities.sort(key=similarity, reverse=True): descending, entries of
\* equal similarity staying in the order they had
RECURSIVE SortBySimilarity(_)
SortBySimilarity(entries) ==
    IF entries = <<>> THEN <<>>
    ELSE InsertDesc(SortBySimilarity(SubSeq(entries, 1, Len(entries) - 1)),
                    entries[Len(entries)])

TruncateOneMore(entries, top_k) == PySlice(entries, 0, top_k + 1)

\* similarities[:top_k]
Truncate(entries, top_k) == PySlice(entries, 0, top_k)

\* search_relevant_chunks once the query embedding and the rows are had
SearchRelevantChunks(query_embedding, stored, top_k) ==
    IF query_embedding = NoVector THEN <<>>
    ELSE IF stored = <<>> THEN <<>>
    ELSE Truncate(SortBySimilarity(Similarities(stored, query_embedding)), top_k)

\* the title column of research_papers, by its length (at most 500)
TitleLen == [p \in Papers |-> IF p = 1 THEN 24 ELSE 500]

\* a part of context_parts: what it holds and how many characters it is
Part(kind, ref, size) == [kind |-> kind, ref |-> ref, size |-> size]

\* "{similarity_score:.3f}": sign, integer digit, point, three decimals
ScoreWidth(similarity) == IF similarity < 0 THEN 6 ELSE 5

\* "\n--- Excerpt {i} (relevance: {similarity_score:.3f}) ---"
ExcerptLabel(i, similarity) ==
    Part("label", <<i, similarity>>,
         13 + (IF i < 10 THEN 1 ELSE 2) + 13 + ScoreWidth(similarity) + 5)

RECURSIVE Excerpts(_, _)
Excerpts(relevant_chunks, i) ==
    IF i > Len(relevant_chunks) THEN <<>>
    ELSE <<ExcerptLabel(i, relevant_chunks[i].similarity),
           Part("content", <<relevant_chunks[i].chunk_id>>,
                Len(relevant_chunks[i].content))>>
         \o Excerpts(relevant_chunks, i + 1)

\* create_rag_context: the list context_parts
CreateRagContext(q, relevant_chunks, p) ==
    <<Part("title", <<p>>, 63 + TitleLen[p]),
      Part("query", <<q>>, 15 + Len(Queries[q])),
      Part("text", <<>>, 0),
      Part("text", <<>>, 33)>>
    \o Excerpts(relevant_chunks, 1)
    \o <<Part("text", <<>>, 0), Part("text", <<>>, 13), Part("text", <<>>, 76),
         Part("text", <<>>, 81), Part("text", <<>>, 64), Part("text", <<>>, 38),
         Part("text", <<>>, 85)>>

RECURSIVE SumSizes(_)
SumSizes(parts) ==
    IF parts = <<>> THEN 0 ELSE Head(parts).size + SumSizes(Tail(parts))

\* the length of "\n".join(context_parts)
ContextSize(parts) ==
    IF parts = <<>> THEN 0 ELSE SumSizes(parts) + Len(parts) - 1

NoAnswer ==
    [kind |-> "none", chunk_ids |-> <<>>, context |-> <<>>,
     generated |-> FALSE, excerpt |-> <<>>]

RagResponseUnchecked(q, p, relevant_chunks) ==
    [kind |-> "response",
     chunk_ids |-> [i \in 1..Len(relevant_chunks) |-> relevant_chunks[i].chunk_id],
     context |-> CreateRagContext(q, relevant_chunks, p),
     generated |-> TRUE,
     excerpt |-> <<>>]

\* what generate_rag_response returns and the steps it went through:
\* kind names the response text, context is the context handed on, generated
\* tells whether the response was built from it
RagResponse(q, p, relevant_chunks) ==
    IF relevant_chunks = <<>>
    THEN [kind |-> "no_relevant_information", chunk_ids |-> <<>>,
          context |-> <<>>, generated |-> FALSE, excerpt |-> <<>>]
    ELSE [kind |-> "response",
          chunk_ids |-> [i \in 1..Len(relevant_chunks) |->
                            relevant_chunks[i].chunk_id],
          context |-> CreateRagContext(q, relevant_chunks, p),
          generated |-> TRUE,
          excerpt |-> PySlice(relevant_chunks[1].content, 0, 500)]

SearchIdle ==
    /\ sq = [op |-> "none", query |-> 0, paper_id |-> 0, top_k |-> 0,
             embedded |-> FALSE]
    /\ retrieved = <<>>
    /\ answer = NoAnswer

\* a call search_relevant_chunks(query, paper_id, db, top_k)
Search(q, p, k) ==
    /\ UNCHANGED <<chunkVars, sessVars, moneyVars, fnVars>>
    /\ pcalls < MaxCalls
    /\ pcalls' = pcalls + 1
    /\ \E query_embedding \in QueryEmbeddings(q),
          stored \in AllOrders(ChunksOfPaper(p)) :
         /\ sq' = [op |-> "search", query |-> q, paper_id |-> p, top_k |-> k,
                   embedded |-> query_embedding # NoVector]
         /\ retrieved' = SearchRelevantChunks(query_embedding, stored, k)
    /\ answer' = NoAnswer
    /\ UNCHANGED <<document_chunks, next_chunk_id, embedding_available,
                   ppc, ppaper, pchunks, pidx, pending, presult, pprior, outcome>>

\* a call generate_rag_response(query, paper_id, db)
GenerateRagResponse(q, p) ==
    /\ UNCHANGED <<chunkVars, sessVars, moneyVars, fnVars>>
    /\ pcalls < MaxCalls
    /\ pcalls' = pcalls + 1
    /\ IF p \notin Papers
       THEN /\ sq' = [op |-> "respond", query |-> q, paper_id |-> p,
                      top_k |-> MAX_CHUNKS_FOR_CONTEXT, embedded |-> FALSE]
            /\ retrieved' = <<>>
            /\ answer' = [kind |-> "paper_not_found", chunk_ids |-> <<>>,
                          context |-> <<>>, generated |-> FALSE,
                          excerpt |-> <<>>]
       ELSE \E query_embedding \in QueryEmbeddings(q),
               stored \in AllOrders(ChunksOfPaper(p)) :
              LET relevant_chunks ==
                      SearchRelevantChunks(query_embedding, stored,
                                           MAX_CHUNKS_FOR_CONTEXT)
              IN  /\ sq' = [op |-> "respond", query |-> q, paper_id |-> p,
                            top_k |-> MAX_CHUNKS_FOR_CONTEXT,
                            embedded |-> query_embedding # NoVector]
                  /\ retrieved' = relevant_chunks
                  /\ answer' = RagResponse(q, p, relevant_chunks)
    /\ UNCHANGED <<document_chunks, next_chunk_id, embedding_available,
                   ppc, ppaper, pchunks, pidx, pending, presult, pprior, outcome>>

NextSearch ==
    \/ \E q \in DOMAIN Queries, p \in RequestedPapers, k \in TopKs : Search(q, p, k)
    \/ \E q \in DOMAIN Queries, p \in RequestedPapers : GenerateRagResponse(q, p)

\* the passages of the stores SpecSearch starts from: short stand-ins for
\* the content (search copies the content and ranks by the vector alone)
Contents == {<<Letter>>, <<Dot>>}

PassageLists == UNION {[1..k -> Contents \X BOOLEAN] : k \in 0..MaxRows}

\* the table after paper p was processed into the passages of list, each
\* stored with its vector or, where generate_embedding gave None, without
StoreOf(p, list) ==
    Flushed([k \in 1..Len(list) |->
                ChunkRow(p,
                         ChunkRecord(list[k][1], k - 1, CHUNK_OVERLAP,
                                     (k - 1) * (CHUNK_SIZE - CHUNK_OVERLAP),
                                     (k - 1) * (CHUNK_SIZE - CHUNK_OVERLAP) + CHUNK_SIZE),
                         IF list[k][2] THEN EmbedVector(list[k][1]) ELSE NoVector)],
            1)

\* paper 1 was processed, no request is running
InitStore ==
    /\ \E list \in PassageLists :
         /\ document_chunks = StoreOf(1, list)
         /\ next_chunk_id = Len(list) + 1
    /\ embedding_available \in BOOLEAN
    /\ ppc = [r \in Requests |-> "idle"]
    /\ ppaper = [r \in Requests |-> 0]
    /\ pchunks = [r \in Requests |-> <<>>]
    /\ pidx = [r \in Requests |-> 0]
    /\ pending = [r \in Requests |-> <<>>]
    /\ presult = [r \in Requests |-> FALSE]
    /\ pprior = [r \in Requests |-> "none"]
    /\ outcome = [p \in RequestedPapers |-> "none"]
    /\ pcalls = 0

----------------------------------------------------------------------------
(* Points: the users table and download_paper (src/main.py) *)

\* a call budget for SpecDownload
MaxDownloads == 3

\* download_cost
DOWNLOAD_COST == 10

\* the role column: user 2 is an administrator
RoleOf == [u \in Users |-> IF u = 2 THEN "admin" ELSE "member"]

\* the balances the users start with
Balances == {5, 20}

InitPoints ==
    /\ hasher_points \in [Users -> Balances]
    /\ initial_points = hasher_points
    /\ point_transactions = <<>>
    /\ download_count = [p \in Papers |-> 0]

PointsIdle ==
    /\ hasher_points = [u \in Users |-> 0]
    /\ initial_points = hasher_points
    /\ point_transactions = <<>>
    /\ download_count = [p \in Papers |-> 0]

NotLoaded == [points |-> 0, count |-> 0, debit |-> FALSE]

NoDownload == [status |-> "none", points_deducted |-> 0, remaining_points |-> 0]

DownloadIdle ==
    /\ dpc = [r \in Requests |-> "idle"]
    /\ dreq = [r \in Requests |-> [user |-> 0, paper |-> 0]]
    /\ dloaded = [r \in Requests |-> NotLoaded]
    /\ dresult = [r \in Requests |-> NoDownload]
    /\ charged = [u \in Users |-> 0]
    /\ dcalls = 0

dlUnchanged == <<chunkVars, procVars, sessVars, searchVars, askVars, fnVars>>

\* a request POST /papers/download/{p} by user u: get_current_user reads the
\* user's row into the request's database session
DownloadStart(r, u, p) ==
    /\ UNCHANGED dlUnchanged
    /\ dpc[r] \in {"idle", "done"}
    /\ dcalls < MaxDownloads
    /\ dcalls' = dcalls + 1
    /\ dpc' = [dpc EXCEPT ![r] = "lookup"]
    /\ dreq' = [dreq EXCEPT ![r] = [user |-> u, paper |-> p]]
    /\ dloaded' = [dloaded EXCEPT ![r] =
                     [points |-> hasher_points[u], count |-> 0, debit |-> FALSE]]
    /\ dresult' = [dresult EXCEPT ![r] = NoDownload]
    /\ UNCHANGED <<pointVars, charged>>

InsufficientNever(points, cost) == FALSE

\* "current_user.hasher_points < download_cost"
Insufficient(points, cost) == points < cost

DebitNothing(points, cost) == points

\* "current_user.hasher_points -= download_cost"
Debit(points, cost) == points - cost

\* the paper is read; 404 without it; then the balance the session holds is
\* checked and, in the session only, debited, and the count incremented
DownloadCheck(r) ==
    /\ UNCHANGED dlUnchanged
    /\ dpc[r] = "lookup"
    /\ LET u == dreq[r].user
           p == dreq[r].paper
       IN  IF p \notin Papers
           THEN /\ dpc' = [dpc EXCEPT ![r] = "done"]
                /\ dresult' = [dresult EXCEPT ![r] =
                                 [NoDownload EXCEPT !.status = "not_found"]]
                /\ UNCHANGED dloaded
           ELSE IF RoleOf[u] # "admin" /\ Insufficient(dloaded[r].points, DOWNLOAD_COST)
           THEN /\ dpc' = [dpc EXCEPT ![r] = "done"]
                /\ dresult' = [dresult EXCEPT ![r] =
                                 [NoDownload EXCEPT !.status = "payment_required"]]
                /\ UNCHANGED dloaded
           ELSE /\ dpc' = [dpc EXCEPT ![r] = "commit"]
                /\ dloaded' = [dloaded EXCEPT ![r] =
                      [points |-> IF RoleOf[u] # "admin"
                                  THEN Debit(dloaded[r].points, DOWNLOAD_COST)
                                  ELSE dloaded[r].points,
                       count |-> download_count[p] + 1,
                       debit |-> RoleOf[u] # "admin"]]
                /\ UNCHANGED dresult
    /\ UNCHANGED <<pointVars, dreq, charged, dcalls>>

\* db.commit(): the values the session holds are written (UPDATE users SET
\* hasher_points = <value>), the transaction row is inserted
DownloadCommit(r) ==
    /\ UNCHANGED dlUnchanged
    /\ dpc[r] = "commit"
    /\ LET u == dreq[r].user
           p == dreq[r].paper
       IN  /\ hasher_points' =
                 IF dloaded[r].debit
                 THEN [hasher_points EXCEPT ![u] = dloaded[r].points]
                 ELSE hasher_points
           /\ point_transactions' =
                 IF dloaded[r].debit
                 THEN Append(point_transactions,
                             [user_id |-> u, purpose |-> "download",
                              credited |-> 0, debited |-> DOWNLOAD_COST,
                              balance_points |-> dloaded[r].points])
                 ELSE point_transactions
           /\ download_count' = [download_count EXCEPT ![p] = dloaded[r].count]
           /\ charged' = IF dloaded[r].debit
                         THEN [charged EXCEPT ![u] = charged[u] + 1]
                         ELSE charged
           /\ dresult' = [dresult EXCEPT ![r] =
                 [status |-> "authorized",
                  points_deducted |-> IF dloaded[r].debit THEN DOWNLOAD_COST ELSE 0,
                  remaining_points |-> hasher_points'[u]]]
    /\ dpc' = [dpc EXCEPT ![r] = "done"]
    /\ UNCHANGED <<initial_points, dreq, dloaded, dcalls>>

NextDownload ==
    \E r \in Requests :
        \/ \E u \in Users, p \in RequestedPapers : DownloadStart(r, u, p)
        \/ DownloadCheck(r)
        \/ DownloadCommit(r)

AskIdle ==
    /\ chat_messages = <<>>
    /\ apc = [r \in Requests |-> "idle"]
    /\ areq = [r \in Requests |-> [user |-> 0, paper |-> 0, query |-> 0]]
    /\ asession = [r \in Requests |-> 0]
    /\ aresult = [r \in Requests |-> [status |-> "none"]]
    /\ adebited = <<>>
    /\ acalls = 0

MoneyIdle == PointsIdle /\ DownloadIdle /\ AskIdle

----------------------------------------------------------------------------
(* The chat orchestrator: ask(user_id, document_id, query, cost_per_query) *)

\* a call budget for SpecAsk
MaxAsks == 2

\* the policy value cost_per_query
CostPerQuery == 10

\* the questions put to ask
AskQueries == {1}

askUnchanged == <<chunkVars, searchVars, dlVars, fnVars,
                  ppc, ppaper, pchunks, pidx, pending, presult, pprior, outcome, pcalls,
                  spc, sop, suser, spaper, sfound, starget, sresult, sprior, squiet,
                  last_returned, scalls,
                  initial_points, point_transactions, download_count,
                  embedding_available>>

AskFailure(tag) == [status |-> tag]

\* a request calls ask(u, p, q); step 1: resolve the document, NotFound if
\* it does not exist
AskStart(r, u, p, q) ==
    /\ UNCHANGED askUnchanged
    /\ apc[r] \in {"idle", "done"}
    /\ acalls < MaxAsks
    /\ acalls' = acalls + 1
    /\ areq' = [areq EXCEPT ![r] = [user |-> u, paper |-> p, query |-> q]]
    /\ asession' = [asession EXCEPT ![r] = 0]
    /\ IF p \notin Papers
       THEN /\ apc' = [apc EXCEPT ![r] = "done"]
            /\ aresult' = [aresult EXCEPT ![r] = AskFailure("NotFound")]
       ELSE /\ apc' = [apc EXCEPT ![r] = "ensure"]
            /\ aresult' = [aresult EXCEPT ![r] = [status |-> "none"]]
    /\ UNCHANGED <<document_chunks, next_chunk_id, chat_sessions, next_session_pk,
                   clock, hasher_points, chat_messages, adebited>>

\* step 2: ensure_paper_processed, ProcessingFailed if it returns False;
\* a paper without passages is processed here, its batch stored at once
\* (every passage with its vector: the provider is available in SpecAsk)
AskEnsure(r) ==
    /\ UNCHANGED askUnchanged
    /\ apc[r] = "ensure"
    /\ LET p == areq[r].paper
           batch == BatchOf[p]
       IN  \/ /\ ChunksOfPaper(p) # {}
              /\ apc' = [apc EXCEPT ![r] = "gate"]
              /\ UNCHANGED <<document_chunks, next_chunk_id, aresult>>
           \/ /\ ChunksOfPaper(p) = {}
              /\ document_chunks' = document_chunks \cup
                     Flushed([k \in 1..Len(batch) |->
                                 ChunkRow(p, batch[k], BatchVectors[p][k])],
                             next_chunk_id)
              /\ next_chunk_id' = next_chunk_id + Len(batch)
              /\ apc' = [apc EXCEPT ![r] = "gate"]
              /\ UNCHANGED aresult
           \/ /\ ChunksOfPaper(p) = {}
              /\ apc' = [apc EXCEPT ![r] = "done"]
              /\ aresult' = [aresult EXCEPT ![r] = AskFailure("ProcessingFailed")]
              /\ UNCHANGED <<document_chunks, next_chunk_id>>
    /\ UNCHANGED <<chat_sessions, next_session_pk, clock, hasher_points,
                   chat_messages, areq, asession, adebited, acalls>>

\* a Message record
Message(sid, role, cost, passage_ids) ==
    [session_id |-> sid, message_type |-> role, points_cost |-> cost,
     relevant_chunks |-> passage_ids]

\* the sessions table after get_or_create for the pair at time now: the
\* active session found is refreshed, or a new one is created
Resolved(u, p, now) ==
    LET matching == ActiveSessions(u, p)
    IN  IF matching # {}
        THEN {[sessions |-> (chat_sessions \ {row})
                               \cup {[row EXCEPT !.last_interaction = now]},
               id |-> row.id, created |-> FALSE] : row \in First(matching)}
        ELSE {[sessions |-> chat_sessions \cup
                               {[id |-> next_session_pk,
                                 user_id |-> u,
                                 paper_id |-> p,
                                 session_id |-> FreshUuid,
                                 is_active |-> TRUE,
                                 chunks_processed |-> FALSE,
                                 created_at |-> now,
                                 last_interaction |-> now]},
               id |-> next_session_pk, created |-> TRUE]}

\* step 3: resolve or refresh the session of the pair (get_or_create);
\* steps 4 and 5, one atomic step: InsufficientBalance if the balance is
\* below the cost, otherwise the debit and the user Message together
AskGate(r) ==
    /\ UNCHANGED askUnchanged
    /\ apc[r] = "gate"
    /\ clock' = clock + 1
    /\ \E s \in Resolved(areq[r].user, areq[r].paper, clock + 1) :
         LET u == areq[r].user
             ledger == IF s.created THEN Append(adebited, 0) ELSE adebited
         IN  /\ chat_sessions' = s.sessions
             /\ next_session_pk' = IF s.created THEN next_session_pk + 1
                                   ELSE next_session_pk
             /\ asession' = [asession EXCEPT ![r] = s.id]
             /\ IF Insufficient(hasher_points[u], CostPerQuery)
                THEN /\ apc' = [apc EXCEPT ![r] = "done"]
                     /\ aresult' = [aresult EXCEPT ![r] =
                                      AskFailure("InsufficientBalance")]
                     /\ adebited' = ledger
                     /\ UNCHANGED <<hasher_points, chat_messages>>
                ELSE /\ hasher_points' = [hasher_points EXCEPT
                            ![u] = Debit(hasher_points[u], CostPerQuery)]
                     /\ chat_messages' = Append(chat_messages,
                            Message(s.id, "user", CostPerQuery, <<>>))
                     /\ adebited' = [ledger EXCEPT ![s.id] = ledger[s.id] + CostPerQuery]
                     /\ apc' = [apc EXCEPT ![r] = "answer"]
                     /\ UNCHANGED aresult
    /\ UNCHANGED <<document_chunks, next_chunk_id, areq, acalls>>

\* steps 6 to 9: retrieval, context and generation (generate_rag_response),
\* the assistant Message with the passage ids and cost 0, and the result;
\* or GenerationFailed, the debit staying applied
AskAnswer(r) ==
    /\ UNCHANGED askUnchanged
    /\ apc[r] = "answer"
    /\ \/ \E query_embedding \in QueryEmbeddings(areq[r].query),
             stored \in AllOrders(ChunksOfPaper(areq[r].paper)) :
            LET response == RagResponse(areq[r].query, areq[r].paper,
                                SearchRelevantChunks(query_embedding, stored,
                                                     MAX_CHUNKS_FOR_CONTEXT))
            IN  /\ chat_messages' = Append(chat_messages,
                        Message(asession[r], "assistant", 0, response.chunk_ids))
                /\ aresult' = [aresult EXCEPT ![r] =
                        [status |-> "ok",
                         session |-> asession[r],
                         retrieved_count |-> Len(response.chunk_ids),
                         points_deducted |-> CostPerQuery,
                         remaining_balance |-> hasher_points[areq[r].user]]]
       \/ /\ aresult' = [aresult EXCEPT ![r] = AskFailure("GenerationFailed")]
          /\ UNCHANGED chat_messages
    /\ apc' = [apc EXCEPT ![r] = "done"]
    /\ UNCHANGED <<document_chunks, next_chunk_id, chat_sessions, next_session_pk,
                   clock, hasher_points, areq, asession, adebited, acalls>>

NextAsk ==
    \E r \in Requests :
        \/ \E u \in Users, p \in RequestedPapers, q \in AskQueries : AskStart(r, u, p, q)
        \/ AskEnsure(r)
        \/ AskGate(r)
        \/ AskAnswer(r)

----------------------------------------------------------------------------
(* The specifications *)

\* chunk_text is not running
ChunkIdle ==
    /\ text = <<>> /\ chunk_size = CHUNK_SIZE /\ overlap = CHUNK_OVERLAP
    /\ InitChunkLocals

\* no processing request is made (the import outcome is fixed)
ProcIdle == InitProc /\ embedding_available

\* neither clean_text nor cosine_similarity is called on its own
FnIdle == CleanIdle /\ CosineIdle

InitChunk ==
    /\ (InitChunkArgs \/ InitChunkExample) /\ InitChunkLocals
    /\ ProcIdle /\ InitSess /\ SearchIdle /\ MoneyIdle /\ FnIdle

SpecChunk == InitChunk /\ [][NextChunk]_vars

Init == InitProc /\ ChunkIdle /\ InitSess /\ SearchIdle /\ MoneyIdle /\ FnIdle

Next == NextProc

Spec == Init /\ [][Next]_vars

InitSession ==
    InitSess /\ ChunkIdle /\ ProcIdle /\ SearchIdle /\ MoneyIdle /\ FnIdle

SpecSession == InitSession /\ [][NextSess]_vars

SpecRetire == InitSession /\ [][NextRetire]_vars

InitSearch ==
    InitStore /\ ChunkIdle /\ InitSess /\ SearchIdle /\ MoneyIdle /\ FnIdle

SpecSearch == InitSearch /\ [][NextSearch]_vars

NextPipeline ==
    \/ NextProc
    \/ \E q \in DOMAIN Queries, p \in RequestedPapers, k \in TopKs : Search(q, p, k)

SpecPipeline == Init /\ [][NextPipeline]_vars

InitDownload ==
    /\ InitPoints /\ DownloadIdle /\ AskIdle
    /\ ChunkIdle /\ ProcIdle /\ InitSess /\ SearchIdle /\ FnIdle

SpecDownload == InitDownload /\ [][NextDownload]_vars

InitAsk ==
    /\ InitPoints /\ DownloadIdle /\ AskIdle
    /\ ChunkIdle /\ ProcIdle /\ InitSess /\ SearchIdle /\ FnIdle

SpecAsk == InitAsk /\ [][NextAsk]_vars

InitClean ==
    /\ InitCleanArgs /\ CosineIdle
    /\ ChunkIdle /\ ProcIdle /\ InitSess /\ SearchIdle /\ MoneyIdle

SpecClean == InitClean /\ [][NextClean]_vars

InitCosine ==
    /\ InitCosineArgs /\ CleanIdle
    /\ ChunkIdle /\ ProcIdle /\ InitSess /\ SearchIdle /\ MoneyIdle

SpecCosine == InitCosine /\ [][NextCosine]_vars

----------------------------------------------------------------------------
(* Properties of chunk_text, checked under SpecChunk *)

\* C1: on every iteration of chunk_text's loop the start position strictly
\* increases (so the loop ends), also when the cut snaps back to a boundary.
C1_StartStrictlyIncreases == [][ChunkStep => start' > start]_vars

\* a text as the normaliser is specified to leave it: no leading or
\* trailing whitespace and no two whitespace characters in a row
IsNormalized(t) ==
    /\ t # <<>>
    /\ ~IsSpace(t[1]) /\ ~IsSpace(t[Len(t)])
    /\ \A i \in 1..(Len(t) - 1) : ~(IsSpace(t[i]) /\ IsSpace(t[i + 1]))

\* the spans of cs, in index order, are a contiguous ordered cover of t
IsCover(cs, t) ==
    /\ cs # <<>>
    /\ cs[1].start_pos = 0
    /\ \A i \in 1..(Len(cs) - 1) : cs[i + 1].start_pos <= cs[i].end_pos
    /\ \A off \in 0..(Len(t) - 1) :
          \E i \in 1..Len(cs) : cs[i].start_pos <= off /\ off < cs[i].end_pos

\* C2 as stated: for every non-empty normalized text and 0 <= overlap <
\* chunk_size, the passages chunk_text returns are a contiguous ordered cover
\* of the text.
C2_CoverForEverySize ==
    (cpc = "done" /\ IsNormalized(text)) => IsCover(chunks, text)

\* C2 amended: the same for chunk_size >= 2; every passage list chunk_text
\* returns for a non-empty normalized text is then a contiguous ordered cover.
C2_CoverFromSizeTwo ==
    (cpc = "done" /\ IsNormalized(text) /\ chunk_size >= 2) => IsCover(chunks, text)

\* a normalized text was cut into three or more passages, the first of them
\* at a boundary before the naive window end
C2_Witness ==
    /\ cpc = "done" /\ IsNormalized(text) /\ chunk_size >= 2
    /\ Len(chunks) >= 3
    /\ chunks[1].end_pos < chunk_size

NoBoundary(t) == \A i \in 1..Len(t) : t[i] = Letter

\* C3: for a text without a sentence or word boundary (and longer than one
\* window) the recorded spans are windows of chunk_size characters stepping
\* by chunk_size - overlap, each but the last chunk_size long, and the
\* last recorded span ends at len(T); the 2,400-character example gives
\* [0,1000), [800,1800), [1600,2400).
C3_NoBoundarySpans ==
    (cpc = "done" /\ NoBoundary(text) /\ Len(text) > chunk_size) =>
        /\ chunks # <<>>
        /\ \A i \in 1..Len(chunks) :
              /\ chunks[i].start_pos = (i - 1) * (chunk_size - overlap)
              /\ i < Len(chunks) => chunks[i].end_pos = chunks[i].start_pos + chunk_size
        /\ chunks[Len(chunks)].end_pos = Len(text)

\* C4: the chunk_index values of the passages are 0, 1, ..., n-1 in emission
\* order; a window with empty trimmed content takes no index; the empty text
\* gives no passage.
C4_DenseIndices ==
    /\ \A i \in 1..Len(chunks) : chunks[i].chunk_index = i - 1
    /\ chunk_index = Len(chunks)
    /\ text = <<>> => (cpc = "done" /\ chunks = <<>>)

\* chunk_text returned passages with a skipped window between two of them:
\* the later one does not start where the window after the earlier one did
C4_Witness ==
    /\ cpc = "done"
    /\ \E i \in 1..(Len(chunks) - 1) :
          chunks[i + 1].start_pos # chunks[i].end_pos - overlap

----------------------------------------------------------------------------
(* Properties of processing, checked under Spec *)

\* C5: a call of ensure_paper_processed made after a call on the same
\* document returned success runs no extraction, chunking or embedding, and
\* returns success.
C5_SecondCallIsNoOp ==
    \A r \in Requests :
        pprior[r] = "ok" =>
            /\ ppc[r] \notin {"extract", "embed"}
            /\ ppc[r] = "done" => presult[r]

\* C6: no two stored passages of one document have the same index.
C6_NoDuplicateIndex ==
    \A a, b \in document_chunks :
        (a.paper_id = b.paper_id /\ a.chunk_index = b.chunk_index) => a.id = b.id

\* the rows of paper p holding index i
RowsAt(p, i) == {row \in ChunksOfPaper(p) : row.chunk_index = i}

\* C7: the passages visible for a document are none, or whole batches of the
\* chunker's output: every index of the batch is present, each as often as
\* the others, and each row is the batch's chunk of that index.
C7_WholeBatchesOnly ==
    \A p \in Papers :
        LET batch == BatchOf[p]
        IN  \/ ChunksOfPaper(p) = {}
            \/ /\ \A row \in ChunksOfPaper(p) :
                     /\ row.chunk_index \in 0..(Len(batch) - 1)
                     /\ [id |-> row.id]
                           @@ ChunkRow(p, batch[row.chunk_index + 1], row.embedding)
                           = row
                     /\ row.embedding \in
                           {BatchVectors[p][row.chunk_index + 1], NoVector}
               /\ \A i, j \in 0..(Len(batch) - 1) :
                     /\ RowsAt(p, i) # {}
                     /\ Cardinality(RowsAt(p, i)) = Cardinality(RowsAt(p, j))

\* a request is in the middle of its batch (some rows added, not all) while
\* another request's batch of the same document is visible
C7_Witness ==
    \E r \in Requests :
        /\ ppc[r] = "embed"
        /\ pending[r] # <<>>
        /\ Len(pending[r]) < Len(pchunks[r])
        /\ ChunksOfPaper(ppaper[r]) # {}

\* C8: a call that returns failure stores no passage, and leaves the document
\* retryable: a later call that finds no passage of the document goes through
\* both presence checks into the pipeline again.
C8_FailureStoresNothing ==
    [][\A r \in Requests :
          /\ (ppc[r] # "done" /\ ppc'[r] = "done" /\ ~presult'[r])
                => document_chunks' = document_chunks
          /\ (ppc[r] = "ensure" /\ ppc'[r] # "ensure"
                /\ ChunksOfPaper(ppaper[r]) = {}) => ppc'[r] = "process"
          /\ (ppc[r] = "process" /\ ppc'[r] # "process" /\ ppaper[r] \in Papers
                /\ ChunksOfPaper(ppaper[r]) = {}) => ppc'[r] = "extract"]_vars

\* a call made after a failed call on the same document is in the pipeline
\* again, with rows of its own pending
C8_Witness ==
    \E r \in Requests :
        /\ pprior[r] = "failed"
        /\ ppc[r] = "embed"
        /\ pending[r] # <<>>
        /\ ChunksOfPaper(ppaper[r]) = {}

----------------------------------------------------------------------------
(* Properties of sessions, checked under SpecSession *)

\* C9: there is at most one active session for each (user, document) pair.
C9_AtMostOneActive ==
    \A pr \in Pairs : Cardinality(ActiveSessions(pr[1], pr[2])) <= 1

\* C10: a create_or_get_chat_session call that runs alone, after an
\* undisturbed call on the same pair returned and with no deactivation since,
\* returns the same session_id, creates no session, and leaves
\* last_interaction no earlier than the first call left it.
C10_TwiceInARow ==
    \A r \in Requests :
        (spc[r] = "done" /\ sop[r] = "get" /\ squiet[r] /\ sprior[r] # <<>>) =>
            /\ sresult[r].session_id = sprior[r][1].session_id
            /\ ~sresult[r].created
            /\ sresult[r].last_interaction >= sprior[r][1].last_interaction
----------------------------------------------------------------------------
(* Properties of the points ledger, checked under SpecAsk and SpecDownload *)

C12_EverySuccessDebitedOnce ==
    \A u \in Users :
        /\ hasher_points[u] >= 0
        /\ hasher_points[u] = initial_points[u] - DOWNLOAD_COST * charged[u]

\* the costs of the messages of the sessions in S, summed
RECURSIVE SumCost(_, _)
SumCost(messages, S) ==
    IF messages = <<>> THEN 0
    ELSE (IF Head(messages).session_id \in S THEN Head(messages).points_cost ELSE 0)
         + SumCost(Tail(messages), S)

SessionsOf(u) == {row.id : row \in {x \in chat_sessions : x.user_id = u}}

----------------------------------------------------------------------------
(* Properties of retrieval, checked under SpecSearch and SpecPipeline *)

\* the rows of the searched paper that have a vector
Vectorized == {row \in ChunksOfPaper(sq.paper_id) : row.embedding # NoVector}

\* the score of a stored row against the question of the last call
ScoreOf(row) == Similarity(QueryVector[sq.query], row.embedding)

Min(a, b) == IF a <= b THEN a ELSE b

\* C14: the results of a search are in descending order of similarity: each
\* result's score is greater than or equal to the next one's.
C14_SortedDescending ==
    sq.op # "none" =>
        \A i \in 1..(Len(retrieved) - 1) :
            retrieved[i].similarity >= retrieved[i + 1].similarity

\* a search returned two results of different scores
C14_Witness ==
    /\ sq.op = "search"
    /\ Len(retrieved) = 2
    /\ retrieved[1].similarity > retrieved[2].similarity

\* C15: among results of equal similarity the passage with the smaller
\* index comes first, whatever order the store returned the passages in.
C15_TiesByIndex ==
    sq.op # "none" =>
        \A i \in 1..(Len(retrieved) - 1) :
            retrieved[i].similarity = retrieved[i + 1].similarity =>
                retrieved[i].chunk_index < retrieved[i + 1].chunk_index

\* C16: only passages stored with a vector are returned, and a paper with
\* no vectorized passage (or no passage) gives an empty result.
C16_OnlyVectorized ==
    sq.op # "none" =>
        /\ \A i \in 1..Len(retrieved) :
             \E row \in Vectorized : row.id = retrieved[i].chunk_id
        /\ Vectorized = {} => retrieved = <<>>

\* a search over a paper that has a passage without a vector returned
\* something
C16_Witness ==
    /\ sq.op = "search"
    /\ retrieved # <<>>
    /\ \E row \in ChunksOfPaper(sq.paper_id) : row.embedding = NoVector

\* the results are min(top_k, vectorized passages) many and no passage left
\* out scores strictly higher than one returned
TopOfVectorized ==
    /\ Len(retrieved) = Min(sq.top_k, Cardinality(Vectorized))
    /\ \A i, j \in 1..Len(retrieved) :
         i # j => retrieved[i].chunk_id # retrieved[j].chunk_id
    /\ \A row \in Vectorized :
         (\A i \in 1..Len(retrieved) : retrieved[i].chunk_id # row.id) =>
             \A i \in 1..Len(retrieved) : ScoreOf(row) <= retrieved[i].similarity

\* C17 as stated: for every top_k >= 0 a search returns exactly min(top_k,
\* number of vectorized passages) results, the highest-scoring ones.
C17_TopKOfVectorized == sq.op = "search" => TopOfVectorized

\* C17 amended: for every top_k >= 0 and every question for which a query
\* vector is obtained, a search returns exactly min(top_k, number of
\* vectorized passages) results, the highest-scoring ones.
C17_TopKWhenQueryEmbedded ==
    (sq.op = "search" /\ sq.embedded) => TopOfVectorized

\* a search with top_k = 1 left out the lower-scoring of two passages
C17_Witness ==
    /\ sq.op = "search" /\ sq.embedded /\ sq.top_k = 1
    /\ Len(retrieved) = 1
    /\ \E row \in Vectorized : ScoreOf(row) < retrieved[1].similarity

\* C18: when the embedding provider is unavailable every embedding is "no
\* vector": processing that succeeds has stored every passage of the paper
\* without a vector, and a search returns an empty result.
C18_DegradesGracefully ==
    ~embedding_available =>
        /\ \A r \in Requests : \A k \in 1..Len(pending[r]) : pending[r][k] = NoVector
        /\ \A row \in document_chunks : row.embedding = NoVector
        /\ \A p \in Papers :
             outcome[p] = "ok" =>
                 \A k \in 1..Len(BatchOf[p]) :
                     \E row \in ChunksOfPaper(p) :
                         /\ row.chunk_index = BatchOf[p][k].chunk_index
                         /\ row.content = BatchOf[p][k].content
        /\ sq.op = "search" => retrieved = <<>>

\* without a provider paper 1 was processed with success and then searched
C18_Witness ==
    /\ ~embedding_available
    /\ outcome[1] = "ok"
    /\ Cardinality(ChunksOfPaper(1)) = Len(BatchOf[1])
    /\ sq.op = "search" /\ sq.paper_id = 1 /\ sq.top_k > 0
    /\ retrieved = <<>>

\* C19 as stated: when zero passages are retrieved the answer step still
\* proceeds to generation and signals the empty context (no passage ids).
C19_GeneratesOnEmptyContext ==
    (sq.op = "respond" /\ sq.paper_id \in Papers /\ retrieved = <<>>) =>
        /\ answer.generated
        /\ answer.chunk_ids = <<>>

\* C19 amended: when zero passages are retrieved the answer step skips
\* context assembly and generation and returns the fixed "no relevant
\* information" answer with an empty passage-id list, not an error.
C19_EmptyContextSignalled ==
    (sq.op = "respond" /\ sq.paper_id \in Papers /\ retrieved = <<>>) =>
        /\ answer.kind = "no_relevant_information"
        /\ ~answer.generated
        /\ answer.context = <<>>
        /\ answer.chunk_ids = <<>>

\* a question about a processed paper retrieved nothing
C19_Witness ==
    /\ sq.op = "respond" /\ retrieved = <<>>
    /\ ChunksOfPaper(sq.paper_id) # {}
    /\ answer.kind = "no_relevant_information"

\* a maximum that admits every context of MAX_CHUNKS_FOR_CONTEXT passages of
\* CHUNK_SIZE characters, the longest title and a question as long as a
\* passage
ContextBudget ==
    63 + 500 + 15 + CHUNK_SIZE + 33
    + MAX_CHUNKS_FOR_CONTEXT * (38 + CHUNK_SIZE) + 357
    + (4 + 2 * MAX_CHUNKS_FOR_CONTEXT + 7 - 1)

\* C20: the context holds the title, the question and the retrieved
\* passages in rank order, each labeled with its score, and its total size
\* never exceeds a fixed maximum.
C20_BoundedContext ==
    answer.kind = "response" =>
        /\ answer.context[1].kind = "title"
        /\ answer.context[1].ref = <<sq.paper_id>>
        /\ answer.context[2].kind = "query"
        /\ answer.context[2].ref = <<sq.query>>
        /\ \A i \in 1..Len(retrieved) :
             /\ answer.context[3 + 2 * i].kind = "label"
             /\ answer.context[3 + 2 * i].ref = <<i, retrieved[i].similarity>>
             /\ answer.context[4 + 2 * i].kind = "content"
             /\ answer.context[4 + 2 * i].ref = <<retrieved[i].chunk_id>>
        /\ ContextSize(answer.context) <= ContextBudget

----------------------------------------------------------------------------
(* Properties of clean_text, checked under SpecClean *)

\* C21: for every input, the text clean_text returns has no two whitespace
\* characters next to each other, no whitespace at its start or its end,
\* and no non-printable character
C21_OutputNormalized ==
    clean_pc = "done" =>
        /\ \A i \in 1..(Len(clean_out) - 1) :
              ~(IsSpace(clean_out[i]) /\ IsSpace(clean_out[i + 1]))
        /\ clean_out # <<>> =>
              ~IsSpace(clean_out[1]) /\ ~IsSpace(clean_out[Len(clean_out)])
        /\ \A i \in 1..Len(clean_out) : IsPrintable(clean_out[i])

\* the digit at index i of t is part of a run of digits that stands alone
\* on its own line
OnOwnLine(t, i) ==
    \E a \in 2..i, b \in i..(Len(t) - 1) :
        /\ \A j \in a..b : t[j] = Digit
        /\ t[a - 1] = Newline
        /\ t[b + 1] = Newline

\* C22: a run of digits alone on its own line of the raw text is not in
\* the text clean_text returns: when every digit of the raw text is in
\* such a run, the returned text has no digit
C22_PageNumbersStripped ==
    (/\ clean_pc = "done"
     /\ \E i \in 1..Len(clean_in) : clean_in[i] = Digit
     /\ \A i \in 1..Len(clean_in) :
           clean_in[i] = Digit => OnOwnLine(clean_in, i))
    => \A i \in 1..Len(clean_out) : clean_out[i] # Digit

----------------------------------------------------------------------------
(* Properties of cosine_similarity, checked under SpecCosine *)

\* every component of v is 0 (the norm of v is zero); true of the empty list
IsZeroVector(v) == \A i \in 1..Len(v) : v[i] = 0

\* C25: cosine_similarity returns exactly 0.0 whenever one of its arguments
\* is empty or has zero norm, also when both are the same zero vector (and
\* it returns: no division by zero, no exception)
C25_ZeroForZeroNorm ==
    (cos_pc = "done" /\ (IsZeroVector(cos_a) \/ IsZeroVector(cos_b)))
    => cos_out = 0

\* cosine_similarity has returned 0.0 for the zero vector paired with itself
C25_Witness ==
    /\ cos_pc = "done"
    /\ cos_a = <<0, 0>> /\ cos_b = cos_a
    /\ cos_out = 0

----------------------------------------------------------------------------
(* Properties of session retirement, checked under SpecRetire *)

\* request r's step is a call deactivate(sid) by the owner of an existing
\* session
DeactivatesOwn(r) ==
    /\ scalls' = scalls + 1
    /\ sop'[r] = "deactivate"
    /\ \E row \in chat_sessions :
          row.session_id = starget'[r] /\ row.user_id = suser'[r]

\* C24: deactivate is idempotent and permanent: every call on an existing
\* session by its owner succeeds and leaves is_active = false, whether the
\* session was active or already inactive; no step deletes a session
\* record; and no step (get_or_create on the same pair included) sets
\* is_active of an inactive session back to true
C24_DeactivatePermanent ==
    [][/\ \A r \in Requests :
            DeactivatesOwn(r) =>
                /\ sresult'[r].status = "ok"
                /\ \A row \in chat_sessions' :
                      row.session_id = starget'[r] => ~row.is_active
        /\ \A row \in chat_sessions :
              \E kept \in chat_sessions' :
                  /\ kept.id = row.id
                  /\ kept.session_id = row.session_id
                  /\ ~row.is_active => ~kept.is_active]_vars

\* two requests have both deactivated the same session with success (one
\* of them found it already inactive), and it is inactive
C24_Witness ==
    /\ \A r \in {1, 2} :
          /\ sop[r] = "deactivate"
          /\ spc[r] = "done"
          /\ sresult[r].status = "ok"
          /\ starget[r] = starget[1]
    /\ \E row \in chat_sessions :
          row.session_id = starget[1] /\ ~row.is_active

----------------------------------------------------------------------------
(* Properties of ask, checked under SpecAsk *)

\* C23: the chunks_processed flag of every session mirrors whether passages
\* are stored for its document: it is true once ensure_processed has
\* succeeded and get_or_create has resolved the session, and false only
\* while the document has no passage
C23_FlagMirrorsPassages ==
    \A row \in chat_sessions :
        row.chunks_processed <=> (ChunksOfPaper(row.paper_id) # {})

\* C26: an ask that fails at one of steps 1 to 4 (NotFound,
\* ProcessingFailed, InsufficientBalance) has no side effect. Stated for the
\* first call made, whose state before is the initial one: when it has
\* failed so, no passage and no session is stored, no message is recorded
\* and every balance is the initial one
C26_FailFastNoSideEffects ==
    \A r \in Requests :
        (/\ acalls = 1
         /\ apc[r] = "done"
         /\ aresult[r].status \in
                {"NotFound", "ProcessingFailed", "InsufficientBalance"})
        => /\ document_chunks = {}
           /\ chat_sessions = {}
           /\ chat_messages = <<>>
           /\ hasher_points = initial_points

----------------------------------------------------------------------------
(* Properties of the cut and of the passage records, under SpecChunk *)

\* the last offset in [lo, hi) at which t holds ch, or -1
LastIn(t, ch, lo, hi) ==
    LET hits == {i \in lo..(hi - 1) : i >= 0 /\ i < Len(t) /\ t[i + 1] = ch}
    IN  IF hits = {} THEN -1 ELSE SetMax(hits)

\* the cut end the rule of C27 gives the window that starts at s
RuleEnd(t, s, size) ==
    LET p == LastIn(t, Dot, s, s + size)
        q == LastIn(t, Blank, s, s + size)
    IN  IF p > s + (size \div 2) THEN p + 1
        ELSE IF q > s + (size \div 2) THEN q
        ELSE s + size

\* the end the iteration in progress cut at, for a window that is not the
\* last: the next window starts at end - overlap
EndOfStep == start' + overlap

\* C27: for every window that is not the last (start + chunk_size <
\* len(text)) the cut end is one past the last '.' of the window if that
\* lies in the back half, else the last ' ' of the window if that lies in
\* the back half, else start + chunk_size; so the span is longer than
\* chunk_size // 2 and at most chunk_size long
C27_CutRule ==
    [][(ChunkStep /\ start + chunk_size < Len(text)) =>
          /\ EndOfStep = RuleEnd(text, start, chunk_size)
          /\ EndOfStep - start > chunk_size \div 2
          /\ EndOfStep - start <= chunk_size]_vars

\* the same rule for the windows whose start is an offset of the text (a
\* start below 0 is one the loop reaches only by moving back)
CutRuleInsideText ==
    [][(ChunkStep /\ start >= 0 /\ start + chunk_size < Len(text)) =>
          /\ EndOfStep = RuleEnd(text, start, chunk_size)
          /\ EndOfStep - start > chunk_size \div 2
          /\ EndOfStep - start <= chunk_size]_vars

\* C28: the recorded overlap_size is 0 for the first passage emitted and,
\* for every later one, the number of characters its span shares with the
\* passage emitted before it: end_pos of that passage minus its own
\* start_pos
C28_OverlapIsSharedSpan ==
    \A i \in 1..Len(chunks) :
        chunks[i].overlap_size =
            IF i = 1 THEN 0 ELSE chunks[i - 1].end_pos - chunks[i].start_pos

\* C29: for every passage emitted on text T, 0 <= start_pos < end_pos <=
\* len(T), content is exactly the substring T[start_pos:end_pos) of the
\* recorded span, and chunk_size is the length of content
C29_ContentIsSpan ==
    \A i \in 1..Len(chunks) :
        /\ 0 <= chunks[i].start_pos
        /\ chunks[i].start_pos < chunks[i].end_pos
        /\ chunks[i].end_pos <= Len(text)
        /\ chunks[i].content =
              SubSeq(text, chunks[i].start_pos + 1, chunks[i].end_pos)
        /\ chunks[i].chunk_size = Len(chunks[i].content)

----------------------------------------------------------------------------
(* Properties of processing, checked under Spec *)

\* C30: whenever ensure_paper_processed (or process_paper_for_rag) has
\* returned success for a document, at least one passage is stored for it,
\* also when its extracted text is non-empty but normalizes or chunks to
\* nothing
C30_SuccessStoresPassages ==
    \A r \in Requests :
        (ppc[r] = "done" /\ presult[r]) => ChunksOfPaper(ppaper[r]) # {}

====
